---- MODULE Spec2Model ----
(***************************************************************************)
(* Voice-assistant webhook backend (kabbig/voice-assistant).               *)
(*                                                                         *)
(* The repository holds two variants of the same program:                  *)
(*   src/main.py          synchronous handler, in-process SESSIONS memory  *)
(*   src/unnamed/part_000 asynchronous handler, Redis slot cache, YClients *)
(*                        scheduling adapter, retry_request wrapper        *)
(* The variable `variant` says which of the two programs is running.       *)
(* Texts are sequences of chunks (strings); the empty text is << >>.       *)
(***************************************************************************)
EXTENDS Integers, Sequences, FiniteSets, TLC

VARIABLES
    variant,              \* "main" (src/main.py) or "main2" (src/unnamed/part_000)
    now,                  \* time.time(), seconds
    ticks,                \* number of clock advances so far
    started,              \* number of webhook requests received so far
    SESSIONS,             \* main.py: caller -> sequence of turns
    LAST_ACTIVITY,        \* main.py: caller -> time of the last turn, or NoTime
    hist,                 \* main.py: what the last handled request did
    REDIS,                \* part_000: slot cache, call key -> entry
    user_token,           \* part_000: YClientsAdapter.user_token
    YCLIENTS_SERVICE_IDS, \* part_000: configured service ids
    YCLIENTS_STAFF_IDS,   \* part_000: configured staff ids
    pc,                   \* part_000: task -> position in webhook
    loc,                  \* part_000: task -> local variables of webhook
    rq,                   \* retry_request run on its own (SpecRetry)
    fq                    \* find_faq_answer run on its own (SpecFaq)

vars == <<variant, now, ticks, started, SESSIONS, LAST_ACTIVITY, hist, REDIS, user_token,
          YCLIENTS_SERVICE_IDS, YCLIENTS_STAFF_IDS, pc, loc, rq, fq>>

(***************************************************************************)
(* Bounds                                                                  *)
(***************************************************************************)
MaxRetries == 4     \* retries argument ranges over 0..MaxRetries
MaxDelay == 2       \* delay argument ranges over 1..MaxDelay
MaxRequests == 2    \* webhook requests received in one run
MaxTicks == 1       \* clock advances in one run

(***************************************************************************)
(* Generic helpers                                                         *)
(***************************************************************************)
RECURSIVE Pow2(_)
Pow2(n) == IF n <= 0 THEN 1 ELSE 2 * Pow2(n - 1)

(***************************************************************************)
(* retry_request (part_000 lines 72-80)                                    *)
(*                                                                         *)
(* A run is the record st:                                                 *)
(*   i       loop variable of `for i in range(retries)`                    *)
(*   calls   number of times fn was awaited                                *)
(*   sleeps  the asyncio.sleep calls made, each with the delay slept and   *)
(*           the number of fn calls made when it was slept                 *)
(*   status  "running", "returned", "raised", "fell_off" (loop exhausted   *)
(*           without return or raise: the function returns None)           *)
(*   value   the value returned (attempt result)                           *)
(*   err     the exception raised                                          *)
(* res is the outcome of this iteration's `await fn()`:                    *)
(*   [ok |-> TRUE, v |-> value] or [ok |-> FALSE, err |-> exception].      *)
(***************************************************************************)
BackoffDelay_late(delay, i) == delay * Pow2(i + 1)

BackoffDelay(delay, i) == delay * Pow2(i)

RetryStart == [i |-> 0, calls |-> 0, sleeps |-> << >>, status |-> "running"]

\* (variant: the last failure is swallowed and None returned)
RetryIter_swallow(st, res, retries, delay) ==
    IF st.i >= retries
    THEN [st EXCEPT !.status = "fell_off"]
    ELSE IF res.ok
    THEN [i |-> st.i, calls |-> st.calls + 1, sleeps |-> st.sleeps,
          status |-> "returned", value |-> res.v]
    ELSE IF st.i < retries - 1
    THEN [i |-> st.i + 1, calls |-> st.calls + 1,
          sleeps |-> Append(st.sleeps,
                            [d |-> BackoffDelay(delay, st.i), after |-> st.calls + 1]),
          status |-> "running"]
    ELSE [i |-> st.i, calls |-> st.calls + 1, sleeps |-> st.sleeps,
          status |-> "fell_off"]

RetryIter(st, res, retries, delay) ==
    IF st.i >= retries
    THEN [st EXCEPT !.status = "fell_off"]
    ELSE IF res.ok
    THEN [i |-> st.i, calls |-> st.calls + 1, sleeps |-> st.sleeps,
          status |-> "returned", value |-> res.v]
    ELSE IF st.i < retries - 1
    THEN [i |-> st.i + 1, calls |-> st.calls + 1,
          sleeps |-> Append(st.sleeps,
                            [d |-> BackoffDelay(delay, st.i), after |-> st.calls + 1]),
          status |-> "running"]
    ELSE [i |-> st.i, calls |-> st.calls + 1, sleeps |-> st.sleeps,
          status |-> "raised", err |-> res.err]

\* An operation observed from outside: attempt k either returns the value k
\* or raises the exception k, so attempts are told apart.
FnOutcome(succeeds, k) ==
    IF succeeds THEN [ok |-> TRUE, v |-> k] ELSE [ok |-> FALSE, err |-> k]

(***************************************************************************)
(* Texts: str.strip(), str.lower(), ", ".join()                            *)
(***************************************************************************)
IsSpace(c) == c = " "

RECURSIVE lstrip(_)
lstrip(s) == IF s # << >> /\ IsSpace(Head(s)) THEN lstrip(Tail(s)) ELSE s

RECURSIVE rstrip(_)
rstrip(s) ==
    IF s # << >> /\ IsSpace(s[Len(s)]) THEN rstrip(SubSeq(s, 1, Len(s) - 1)) ELSE s

strip(s) == rstrip(lstrip(s))

LowerChar(c) ==
    CASE c = "A" -> "a" [] c = "B" -> "b" [] c = "C" -> "c" [] OTHER -> c

RECURSIVE lower(_)
lower(s) == IF s = << >> THEN << >> ELSE <<LowerChar(Head(s))>> \o lower(Tail(s))

RECURSIVE join(_, _)
join(sep, parts) ==
    IF parts = << >> THEN << >>
    ELSE IF Len(parts) = 1 THEN <<parts[1]>>
    ELSE <<parts[1], sep>> \o join(sep, Tail(parts))

Pad(n) == [k \in 1..n |-> " "]

(***************************************************************************)
(* JSON documents the language model may answer with.  A chunk of a text   *)
(* is either whitespace " ", a word that is no JSON ("x"), or the text of  *)
(* one complete JSON document; JsonDoc gives the value json.loads builds   *)
(* from such a document.  A value has a type; an object has the members    *)
(* "act" and "text", each absent, or of kind "str", "num" or "null".       *)
(* An act string is kept as its pieces, e.g. <<"book", "(", "1", ")">>.    *)
(***************************************************************************)
Absent == [k |-> "absent", s |-> << >>]
Str(s) == [k |-> "str", s |-> s]
NonStr(kind) == [k |-> kind, s |-> << >>]

Obj(act, text) == [type |-> "object", act |-> act, text |-> text]
NonObj(type) == [type |-> type, act |-> Absent, text |-> Absent]

Hi == <<"hi">>

JsonDocs ==
    {"5", "'s'", "[]", "null", "{}",
     "{act:say,text:hi}", "{act:say}", "{text:hi}",
     "{act:show_slots,text:hi}", "{act:goodbye,text:hi}", "{act:foo,text:hi}",
     "{act:5,text:hi}", "{act:null,text:hi}",
     "{act:book,text:hi}", "{act:book(0),text:hi}", "{act:book(1),text:hi}",
     "{act:book(5),text:hi}", "{act:book(-1),text:hi}", "{act:book(-5),text:hi}",
     "{act:book(x),text:hi}", "{act:book:1,text:hi}"}

JsonDoc(c) ==
    CASE c = "5" -> NonObj("number")
      [] c = "'s'" -> NonObj("string")
      [] c = "[]" -> NonObj("array")
      [] c = "null" -> NonObj("null")
      [] c = "{}" -> Obj(Absent, Absent)
      [] c = "{act:say,text:hi}" -> Obj(Str(<<"say">>), Str(Hi))
      [] c = "{act:say}" -> Obj(Str(<<"say">>), Absent)
      [] c = "{text:hi}" -> Obj(Absent, Str(Hi))
      [] c = "{act:show_slots,text:hi}" -> Obj(Str(<<"show_slots">>), Str(Hi))
      [] c = "{act:goodbye,text:hi}" -> Obj(Str(<<"goodbye">>), Str(Hi))
      [] c = "{act:foo,text:hi}" -> Obj(Str(<<"foo">>), Str(Hi))
      [] c = "{act:5,text:hi}" -> Obj(NonStr("num"), Str(Hi))
      [] c = "{act:null,text:hi}" -> Obj(NonStr("null"), Str(Hi))
      [] c = "{act:book,text:hi}" -> Obj(Str(<<"book">>), Str(Hi))
      [] c = "{act:book(0),text:hi}" -> Obj(Str(<<"book", "(", "0", ")">>), Str(Hi))
      [] c = "{act:book(1),text:hi}" -> Obj(Str(<<"book", "(", "1", ")">>), Str(Hi))
      [] c = "{act:book(5),text:hi}" -> Obj(Str(<<"book", "(", "5", ")">>), Str(Hi))
      [] c = "{act:book(-1),text:hi}" -> Obj(Str(<<"book", "(", "-", "1", ")">>), Str(Hi))
      [] c = "{act:book(-5),text:hi}" -> Obj(Str(<<"book", "(", "-", "5", ")">>), Str(Hi))
      [] c = "{act:book(x),text:hi}" -> Obj(Str(<<"book", "(", "x", ")">>), Str(Hi))
      [] c = "{act:book:1,text:hi}" -> Obj(Str(<<"book", ":", "1">>), Str(Hi))

\* json.loads(content): surrounding whitespace is skipped, then exactly one
\* document must remain; anything else raises JSONDecodeError.
json_loads(content) ==
    LET c == strip(content) IN
    IF Len(c) = 1 /\ c[1] \in JsonDocs
    THEN [ok |-> TRUE, v |-> JsonDoc(c[1])]
    ELSE [ok |-> FALSE, v |-> NonObj("null")]

(***************************************************************************)
(* ask_gpt (part_000 lines 175-191), from the completion's raw content on. *)
(***************************************************************************)
\* (variant: the fallback keeps the completion without stripping it)
ask_gpt_unstripped(raw) ==
    LET parsed == json_loads(raw)
    IN  IF parsed.ok THEN parsed.v
        ELSE Obj(Str(<<"say">>), Str(raw))

ask_gpt(raw) ==
    LET content == strip(raw)
        parsed == json_loads(content)
    IN  IF parsed.ok THEN parsed.v
        ELSE Obj(Str(<<"say">>), Str(content))

(***************************************************************************)
(* Python values used by the handler                                       *)
(***************************************************************************)
None == "None"                      \* str(None), as an f-string renders it
PyStr(x) == x                       \* f"{x}" of a str, or of None ("None")

\* int(s) of an act remainder: a digit, or a sign and a digit; else ValueError
IsDigit(c) == c \in {"0", "1", "5"}
DigitVal(c) == CASE c = "0" -> 0 [] c = "1" -> 1 [] c = "5" -> 5
PyInt(s) ==
    IF Len(s) = 1 /\ IsDigit(s[1]) THEN [ok |-> TRUE, v |-> DigitVal(s[1])]
    ELSE IF Len(s) = 2 /\ s[1] = "-" /\ IsDigit(s[2])
    THEN [ok |-> TRUE, v |-> 0 - DigitVal(s[2])]
    ELSE IF Len(s) = 2 /\ s[1] = "+" /\ IsDigit(s[2])
    THEN [ok |-> TRUE, v |-> DigitVal(s[2])]
    ELSE [ok |-> FALSE, v |-> 0]

\* act.replace("book", "")
RECURSIVE ReplaceBook(_)
ReplaceBook(s) ==
    IF s = << >> THEN << >>
    ELSE IF Head(s) = "book" THEN ReplaceBook(Tail(s))
    ELSE <<Head(s)>> \o ReplaceBook(Tail(s))

\* .strip("()")
IsParen(c) == c \in {"(", ")"}
RECURSIVE LStripParens(_)
LStripParens(s) == IF s # << >> /\ IsParen(Head(s)) THEN LStripParens(Tail(s)) ELSE s
RECURSIVE RStripParens(_)
RStripParens(s) ==
    IF s # << >> /\ IsParen(s[Len(s)]) THEN RStripParens(SubSeq(s, 1, Len(s) - 1)) ELSE s
StripParens(s) == RStripParens(LStripParens(s))

\* idx = int(act.replace("book", "").strip("()") or 0)       (line 246)
BookIndex(act) ==
    LET rest == StripParens(ReplaceBook(act)) IN
    IF rest = << >> THEN [ok |-> TRUE, v |-> 0] ELSE PyInt(rest)

\* seq[idx] with Python's negative indices; IndexError outside the range
PyIndexOk(seq, idx) == idx < Len(seq) /\ idx >= 0 - Len(seq)
PyIndex(seq, idx) == IF idx >= 0 THEN seq[idx + 1] ELSE seq[Len(seq) + idx + 1]

\* choice = slots[idx] if idx < len(slots) else slots[0]     (line 247)
ChoiceIndex(slots, idx) == IF idx < Len(slots) THEN idx ELSE 0

StartsWithBook(s) == s # << >> /\ Head(s) = "book"

(***************************************************************************)
(* Slots as the scheduling provider returns them (book_times entries)      *)
(***************************************************************************)
SlotLabel(k) ==
    CASE k = 1 -> "10:00" [] k = 2 -> "10:30" [] k = 3 -> "11:00" [] OTHER -> "11:30"
Slot(k) == [time |-> SlotLabel(k), datetime |-> 100000 + k]
NoSlot == [time |-> "", datetime |-> 0]

\* slots[:3]
Take3(s) == SubSeq(s, 1, IF Len(s) < 3 THEN Len(s) ELSE 3)

\* json.dumps of the slot list gives a JSON text, never the empty string;
\* redis.get gives that text back, or None when the key is absent or expired
json_dumps(x) == [none |-> FALSE, doc |-> x]
PyNone == [none |-> TRUE, doc |-> << >>]
Truthy(v) == ~v.none
json_loads_slots(v) == v.doc

(***************************************************************************)
(* Redis slot cache: key -> entry, entries expire at `exp`                 *)
(***************************************************************************)
SLOT_TTL == 3600
Key(call_id, field) == <<"call", PyStr(call_id), field>>
NoEntry == [present |-> FALSE, val |-> PyNone, exp |-> 0]
Live(store, key, t) == store[key].present /\ t < store[key].exp
redis_get(store, key, t) == IF Live(store, key, t) THEN store[key].val ELSE PyNone
redis_set(store, key, val, ex, t) ==
    [store EXCEPT ![key] = [present |-> TRUE, val |-> val, exp |-> t + ex]]
redis_delete(store, key) == [store EXCEPT ![key] = NoEntry]

(***************************************************************************)
(* YClientsAdapter (part_000 lines 84-143).  An answer is what the         *)
(* provider does on one attempt:                                           *)
(*   auth    "tok" | "none" | "err"   outcome of authorize, when it is run *)
(*   net     "ok" | "err" | "401"     the HTTP exchange: answered, failed, *)
(*                                    or answered 401 with an error body   *)
(*                                    (the status is not looked at)        *)
(*   days    "some" | "empty" | "falsy"   book_dates data                  *)
(*   times   the book_times data                                           *)
(*   success the record's success flag                                     *)
(***************************************************************************)
NoToken == ""

\* _headers: authorize only when no token is held
Headers(ans, tok) ==
    IF tok # NoToken THEN [ok |-> TRUE, tok |-> tok, auth |-> 0]
    ELSE IF ans.auth = "err" THEN [ok |-> FALSE, tok |-> tok, auth |-> 1]
    ELSE IF ans.auth = "none" THEN [ok |-> TRUE, tok |-> NoToken, auth |-> 1]
    ELSE [ok |-> TRUE, tok |-> "tok", auth |-> 1]

get_slots_do(ans, tok) ==
    LET h == Headers(ans, tok) IN
    IF ~h.ok THEN [ok |-> FALSE, err |-> "AuthError", tok |-> h.tok, auth |-> h.auth]
    ELSE IF ans.net = "err"
    THEN [ok |-> FALSE, err |-> "ClientError", tok |-> h.tok, auth |-> h.auth]
    ELSE IF ans.net = "401" \/ ans.days = "empty"
    THEN [ok |-> FALSE, err |-> "IndexError", tok |-> h.tok, auth |-> h.auth]
    ELSE IF ans.days = "falsy"
    THEN [ok |-> TRUE, v |-> << >>, tok |-> h.tok, auth |-> h.auth]
    ELSE [ok |-> TRUE, v |-> Take3(ans.times), tok |-> h.tok, auth |-> h.auth]

create_record_do(ans, tok) ==
    LET h == Headers(ans, tok) IN
    IF ~h.ok THEN [ok |-> FALSE, err |-> "AuthError", tok |-> h.tok, auth |-> h.auth]
    ELSE IF ans.net = "err"
    THEN [ok |-> FALSE, err |-> "ClientError", tok |-> h.tok, auth |-> h.auth]
    ELSE IF ans.net = "401"
    THEN [ok |-> TRUE, v |-> [success |-> FALSE], tok |-> h.tok, auth |-> h.auth]
    ELSE [ok |-> TRUE, v |-> [success |-> ans.success], tok |-> h.tok, auth |-> h.auth]

Invoke(kind, ans, tok) ==
    IF kind = "get_slots" THEN get_slots_do(ans, tok) ELSE create_record_do(ans, tok)

\* retry_request(_do) with the default retries=3, delay=1; the adapter's token
\* is carried from one attempt to the next.  auths logs each attempt: whether
\* a token was held before it, the authorize calls it made, and whether its
\* request was answered 401.
DefaultRetries == 3
DefaultDelay == 1

Attempt(ans, tok, r) ==
    [held |-> tok # NoToken, auth |-> r.auth,
     denied |-> Headers(ans, tok).ok /\ ans.net = "401"]

RECURSIVE RetryRun(_, _, _, _, _)
RetryRun(kind, answers, tok, auths, st) ==
    IF st.status # "running" THEN [st |-> st, tok |-> tok, auths |-> auths]
    ELSE LET r == Invoke(kind, answers[st.calls + 1], tok) IN
         IF st.i >= DefaultRetries
         THEN [st |-> RetryIter(st, r, DefaultRetries, DefaultDelay),
               tok |-> tok, auths |-> auths]
         ELSE RetryRun(kind, answers, r.tok,
                       Append(auths, Attempt(answers[st.calls + 1], tok, r)),
                       RetryIter(st, r, DefaultRetries, DefaultDelay))

retry_request(kind, answers, tok) == RetryRun(kind, answers, tok, << >>, RetryStart)

(***************************************************************************)
(* Inputs of the asynchronous webhook (part_000)                           *)
(***************************************************************************)
Tasks == {1, 2}                     \* concurrently running webhook tasks
Missing == "<missing>"              \* the payload has no such field
CallerIds == {"79991234567"}
CallIds == {"c1"}
Events == {"End", "SpeechCaptured", "Other"}
Payloads ==
    [event : Events, callerid : CallerIds \cup {Missing},
     call_id : CallIds \cup {Missing}, recording_url : BOOLEAN]

\* the telephone calls an event can come from: the call its call_id names,
\* or any of the calls in progress when it has none
AnonLines == {"line1", "line2"}
LineOf(p) == IF p.call_id = Missing THEN "line1" ELSE p.call_id
LinesOf(p) == IF p.call_id = Missing THEN AnonLines ELSE {p.call_id}

\* data.get("callerid", "unknown"), data.get("call_id")
GetCaller(p) == IF p.callerid = Missing THEN "unknown" ELSE p.callerid
GetCallId(p) == IF p.call_id = Missing THEN None ELSE p.call_id

CallKeys == CallIds \cup {None}
RedisKeys == {Key(c, f) : c \in CallKeys, f \in {"stage", "intent", "slots"}}

\* fixed phrases of the handler (lines 222, 238, 256, 259)
Clarify == <<"CLARIFY">>
SlotsPrefix == "SLOTS:"
BookedOk == <<"BOOKED">>
BookedFail == <<"NOT_BOOKED">>
Farewell == <<"GOODBYE">>

\* what the recognizer hears
UserTextsB == {<< >>, <<"u">>}

\* raw completions of the language model: a body as it is, and some bodies
\* with whitespace before and after
MaxPad == 1
Bodies ==
    {<< >>, <<"x">>, <<"x", " ", "x">>, <<"5", "x">>} \cup {<<d>> : d \in JsonDocs}
PaddedBodies == {<< >>, <<"x">>, <<"{act:say,text:hi}">>, <<"5">>}
ModelOutputs ==
    Bodies \cup {Pad(l) \o b \o Pad(r) : l \in 0..MaxPad, r \in 0..MaxPad, b \in PaddedBodies}

\* provider behaviours over the three attempts of one retry_request
Ans(auth, net, days, times, success) ==
    [auth |-> auth, net |-> net, days |-> days, times |-> times, success |-> success]
TimesChoices == {<< >>, <<Slot(1), Slot(2)>>, <<Slot(1), Slot(2), Slot(3), Slot(4)>>}
AuthOutcomes == {"tok", "err"}
NetErr == Ans("tok", "err", "some", << >>, FALSE)
Denied == Ans("tok", "401", "some", << >>, FALSE)
SlotAnswers ==
    {Ans(a, "ok", "some", ts, FALSE) : a \in AuthOutcomes, ts \in TimesChoices}
    \cup {Ans("tok", "ok", d, << >>, FALSE) : d \in {"empty", "falsy"}}
    \cup {NetErr, Denied}
BookAnswers ==
    {Ans(a, "ok", "some", << >>, b) : a \in AuthOutcomes, b \in BOOLEAN} \cup {NetErr, Denied}
Behaviours(answers) ==
    {<<a, a, a>> : a \in answers} \cup {<<NetErr, a, a>> : a \in answers}

(***************************************************************************)
(* Local state of one webhook task: the handler's local variables, and     *)
(* what it did (called: the outbound calls in order; last_retry: the last  *)
(* retry_request run; answered: the completion returned; hit: the slot     *)
(* cache had an entry when book read it; had_slots: the cache had an entry *)
(* when End deleted it; interrupted: an End of the same call ran while     *)
(* this task was between two awaits, and no request of the call started    *)
(* since; recognized: the recognizer answered; fetched: each get_slots     *)
(* call of show_slots with its ids and its result; prev: what the slot     *)
(* cache held for the call when show_slots wrote it; line: the telephone   *)
(* call the event came from)                                               *)
(***************************************************************************)
NoRequest ==
    [sent |-> FALSE, phone |-> "", fullname |-> "", service_id |-> "",
     staff_id |-> "", datetime |-> <<0, 0, 0, 0>>, api_id |-> ""]
Resp(kind, text, exc) == [kind |-> kind, text |-> text, exc |-> exc]
NoResp == Resp("none", << >>, "")
NoRetry == [calls |-> 0, sleeps |-> << >>, status |-> "none", auths |-> << >>]

LocInit ==
    [event |-> "", caller |-> "", call_id |-> "", user_text |-> << >>,
     raw |-> << >>, act |-> Absent, reply_text |-> << >>, slots_all |-> << >>,
     pos |-> 0, idx |-> 0, cached |-> << >>, choice |-> NoSlot,
     request |-> NoRequest, called |-> << >>, last_retry |-> NoRetry,
     resp |-> NoResp, answered |-> FALSE, hit |-> FALSE, had_slots |-> FALSE,
     interrupted |-> FALSE, recognized |-> FALSE, fetched |-> << >>,
     prev |-> PyNone, line |-> ""]

Crash(l, exc) == [l EXCEPT !.resp = Resp("error", << >>, exc)]
Log(l, what) == [l EXCEPT !.called = Append(l.called, what)]
RetryLog(r) ==
    [calls |-> r.st.calls, sleeps |-> r.st.sleeps, status |-> r.st.status,
     auths |-> r.auths]

InFlight(t) == pc[t] # "idle"
AllIdle == \A t \in Tasks : pc[t] = "idle"

main2Frame == UNCHANGED <<variant, SESSIONS, LAST_ACTIVITY, hist, rq, fq,
                          YCLIENTS_SERVICE_IDS, YCLIENTS_STAFF_IDS>>

(***************************************************************************)
(* webhook (part_000 lines 195-264), one action per stretch between awaits *)
(***************************************************************************)
\* lines 197-210, 264: read the payload, pick the branch
Start(t, p, line) ==
    /\ variant = "main2"
    /\ pc[t] = "idle"
    /\ LET l0 == [LocInit EXCEPT !.event = p.event, !.caller = GetCaller(p),
                                 !.call_id = GetCallId(p), !.line = line]
           l1 == IF p.event = "End" \/ (p.event = "SpeechCaptured" /\ p.recording_url)
                 THEN l0 ELSE [l0 EXCEPT !.resp = Resp("ok", << >>, "")]
       IN  loc' = [u \in Tasks |->
                      IF u = t THEN l1
                      ELSE IF loc[u].call_id = GetCallId(p)
                      THEN [loc[u] EXCEPT !.interrupted = FALSE]
                      ELSE loc[u]]
    /\ pc' = [pc EXCEPT ![t] =
                 IF p.event = "End" THEN "end_stage"
                 ELSE IF p.event = "SpeechCaptured" /\ p.recording_url THEN "stt"
                 ELSE "idle"]
    /\ started < MaxRequests
    /\ started' = started + 1
    /\ UNCHANGED <<now, ticks, REDIS, user_token>>
    /\ main2Frame

\* line 205
EndStage(t) ==
    /\ pc[t] = "end_stage"
    /\ REDIS' = redis_delete(REDIS, Key(loc[t].call_id, "stage"))
    /\ pc' = [pc EXCEPT ![t] = "end_intent"]
    /\ UNCHANGED <<now, ticks, started, loc, user_token>>
    /\ main2Frame

\* line 206
EndIntent(t) ==
    /\ pc[t] = "end_intent"
    /\ REDIS' = redis_delete(REDIS, Key(loc[t].call_id, "intent"))
    /\ pc' = [pc EXCEPT ![t] = "end_slots"]
    /\ UNCHANGED <<now, ticks, started, loc, user_token>>
    /\ main2Frame

\* (variant: the slots key is left alone)
EndDeleteSlots_stage(store, call_id) == redis_delete(store, Key(call_id, "stage"))

\* lines 207-208
EndDeleteSlots(store, call_id) == redis_delete(store, Key(call_id, "slots"))

EndSlots(t) ==
    /\ pc[t] = "end_slots"
    /\ REDIS' = EndDeleteSlots(REDIS, loc[t].call_id)
    /\ loc' = [u \in Tasks |->
                  IF u = t
                  THEN [loc[t] EXCEPT !.resp = Resp("cleared", << >>, ""),
                                      !.had_slots = Live(REDIS, Key(loc[t].call_id, "slots"), now)]
                  ELSE IF InFlight(u) /\ loc[u].event = "SpeechCaptured"
                          /\ loc[u].call_id = loc[t].call_id
                  THEN [loc[u] EXCEPT !.interrupted = TRUE]
                  ELSE loc[u]]
    /\ pc' = [pc EXCEPT ![t] = "idle"]
    /\ UNCHANGED <<now, ticks, started, user_token>>
    /\ main2Frame

\* (variant: nothing heard is passed on to the language model)
Stt_ask(t) ==
    /\ pc[t] = "stt"
    /\ \E failed \in BOOLEAN, text \in UserTextsB :
          LET l1 == Log(loc[t], "stt") IN
          IF failed
          THEN /\ loc' = [loc EXCEPT ![t] = Crash(l1, "ClientError")]
               /\ pc' = [pc EXCEPT ![t] = "idle"]
          ELSE /\ loc' = [loc EXCEPT ![t] = [l1 EXCEPT !.user_text = text,
                                                        !.recognized = TRUE]]
               /\ pc' = [pc EXCEPT ![t] = "gpt"]
    /\ UNCHANGED <<now, ticks, started, REDIS, user_token>>
    /\ main2Frame

\* lines 211-224: download the recording, recognize it
Stt(t) ==
    /\ pc[t] = "stt"
    /\ \E failed \in BOOLEAN, text \in UserTextsB :
          LET l1 == Log(loc[t], "stt") IN
          IF failed
          THEN /\ loc' = [loc EXCEPT ![t] = Crash(l1, "ClientError")]
               /\ pc' = [pc EXCEPT ![t] = "idle"]
          ELSE IF text = << >>
          THEN /\ loc' = [loc EXCEPT ![t] = [l1 EXCEPT !.reply_text = Clarify,
                                                        !.recognized = TRUE]]
               /\ pc' = [pc EXCEPT ![t] = "tts"]
          ELSE /\ loc' = [loc EXCEPT ![t] = [l1 EXCEPT !.user_text = text,
                                                        !.recognized = TRUE]]
               /\ pc' = [pc EXCEPT ![t] = "gpt"]
    /\ UNCHANGED <<now, ticks, started, REDIS, user_token>>
    /\ main2Frame

\* lines 227-228: gpt_reply.get("act", "say"), gpt_reply.get("text", "")
GetAct(data) == IF data.act.k = "absent" THEN Str(<<"say">>) ELSE data.act
GetText(data) == IF data.text.k = "absent" THEN << >> ELSE data.text.s

NumPairs == Len(YCLIENTS_SERVICE_IDS) * Len(YCLIENTS_STAFF_IDS)
\* the pos-th pair of `for sid in SERVICE_IDS: for stf in STAFF_IDS`
PairAt(pos) ==
    <<YCLIENTS_SERVICE_IDS[((pos - 1) \div Len(YCLIENTS_STAFF_IDS)) + 1],
      YCLIENTS_STAFF_IDS[((pos - 1) % Len(YCLIENTS_STAFF_IDS)) + 1]>>

\* lines 227-262 up to the next await: which branch the directive selects.
\* A value that is no dict has no .get; an act that is no str has no
\* .startswith: both raise AttributeError.
Dispatch(l, data) ==
    IF data.type # "object"
    THEN [l |-> Crash(l, "AttributeError"), pc |-> "idle"]
    ELSE LET act == GetAct(data)
             l1 == [l EXCEPT !.act = act, !.reply_text = GetText(data)]
         IN  IF act = Str(<<"show_slots">>)
             THEN [l |-> [l1 EXCEPT !.pos = 1],
                   pc |-> IF NumPairs = 0 THEN "slots_set" ELSE "slots_loop"]
             ELSE IF act.k # "str"
             THEN [l |-> Crash(l1, "AttributeError"), pc |-> "idle"]
             ELSE IF StartsWithBook(act.s)
             THEN [l |-> l1, pc |-> "book_get"]
             ELSE IF act = Str(<<"goodbye">>)
             THEN [l |-> [l1 EXCEPT !.reply_text = Farewell], pc |-> "tts"]
             ELSE [l |-> l1, pc |-> "tts"]

\* line 226: the completion call, then the dispatch
Gpt(t, outputs) ==
    /\ pc[t] = "gpt"
    /\ \E failed \in BOOLEAN, raw \in outputs :
          LET l1 == Log(loc[t], "llm")
              d == Dispatch([l1 EXCEPT !.raw = raw, !.answered = TRUE], ask_gpt(raw))
          IN  IF failed
              THEN /\ loc' = [loc EXCEPT ![t] = Crash(l1, "OpenAIError")]
                   /\ pc' = [pc EXCEPT ![t] = "idle"]
              ELSE /\ loc' = [loc EXCEPT ![t] = d.l]
                   /\ pc' = [pc EXCEPT ![t] = d.pc]
    /\ UNCHANGED <<now, ticks, started, REDIS, user_token>>
    /\ main2Frame

\* lines 233-236: one yclients.get_slots call of the loop
SlotsLoop(t, behaviours) ==
    /\ pc[t] = "slots_loop"
    /\ \E beh \in behaviours :
          LET r == retry_request("get_slots", beh, user_token)
              l1 == [Log(loc[t], "get_slots") EXCEPT !.last_retry = RetryLog(r)]
          IN  /\ user_token' = r.tok
              /\ IF r.st.status = "raised"
                 THEN /\ loc' = [loc EXCEPT ![t] = Crash(l1, r.st.err)]
                      /\ pc' = [pc EXCEPT ![t] = "idle"]
                 ELSE /\ loc' = [loc EXCEPT ![t] =
                                    [l1 EXCEPT !.slots_all = l1.slots_all \o r.st.value,
                                               !.pos = l1.pos + 1,
                                               !.fetched =
                                                   Append(l1.fetched,
                                                          [sid |-> PairAt(l1.pos)[1],
                                                           stf |-> PairAt(l1.pos)[2],
                                                           slots |-> r.st.value])]]
                      /\ pc' = [pc EXCEPT ![t] =
                                   IF loc[t].pos + 1 > NumPairs THEN "slots_set"
                                   ELSE "slots_loop"]
    /\ UNCHANGED <<now, ticks, started, REDIS>>
    /\ main2Frame

\* (variant: every cached slot is listed)
SlotsReply_all(slots_all) ==
    <<SlotsPrefix>> \o join(", ", [k \in 1..Len(slots_all) |-> slots_all[k].time])

\* lines 238-240
SlotsReply(slots_all) ==
    <<SlotsPrefix>> \o join(", ", [k \in 1..Len(Take3(slots_all)) |-> slots_all[k].time])

\* lines 237-240
SlotsSet(t) ==
    /\ pc[t] = "slots_set"
    /\ REDIS' = redis_set(REDIS, Key(loc[t].call_id, "slots"),
                          json_dumps(loc[t].slots_all), SLOT_TTL, now)
    /\ loc' = [loc EXCEPT ![t] =
                  [Log(loc[t], "redis_set") EXCEPT
                      !.reply_text = SlotsReply(loc[t].slots_all),
                      !.prev = redis_get(REDIS, Key(loc[t].call_id, "slots"), now)]]
    /\ pc' = [pc EXCEPT ![t] = "tts"]
    /\ UNCHANGED <<now, ticks, started, user_token>>
    /\ main2Frame

\* time.strftime("%Y-%m-%dT%H:%M:%S", time.localtime(ts_unix)): the date (as a
\* day number), hour, minute and second of ts_unix
strftime(ts_unix) ==
    <<ts_unix \div 86400, (ts_unix % 86400) \div 3600, (ts_unix % 3600) \div 60,
      ts_unix % 60>>

\* lines 248-255: the arguments of create_record and the record it posts
BookingRequest(caller, call_id, choice, t) ==
    [sent |-> TRUE, phone |-> caller, fullname |-> "Guest",
     service_id |-> YCLIENTS_SERVICE_IDS[1], staff_id |-> YCLIENTS_STAFF_IDS[1],
     datetime |-> strftime(t + 3600), api_id |-> call_id]

\* lines 243-255: read the cache, resolve the slot, build the request
BookGet(t) ==
    /\ pc[t] = "book_get"
    /\ LET slots_raw == redis_get(REDIS, Key(loc[t].call_id, "slots"), now)
           slots == json_loads_slots(slots_raw)
           bi == BookIndex(loc[t].act.s)
           ci == ChoiceIndex(slots, bi.v)
           l1 == [Log(loc[t], "redis_get") EXCEPT !.cached = slots, !.hit = TRUE]
       IN  IF ~Truthy(slots_raw)
           THEN /\ loc' = [loc EXCEPT ![t] = Log(loc[t], "redis_get")]
                /\ pc' = [pc EXCEPT ![t] = "tts"]
           ELSE IF ~bi.ok
           THEN /\ loc' = [loc EXCEPT ![t] = Crash(l1, "ValueError")]
                /\ pc' = [pc EXCEPT ![t] = "idle"]
           ELSE IF ~PyIndexOk(slots, ci)
                   \/ YCLIENTS_SERVICE_IDS = << >> \/ YCLIENTS_STAFF_IDS = << >>
           THEN /\ loc' = [loc EXCEPT ![t] = Crash([l1 EXCEPT !.idx = bi.v], "IndexError")]
                /\ pc' = [pc EXCEPT ![t] = "idle"]
           ELSE /\ loc' = [loc EXCEPT ![t] =
                              [l1 EXCEPT !.idx = bi.v, !.choice = PyIndex(slots, ci),
                                         !.request = BookingRequest(loc[t].caller,
                                                         loc[t].call_id,
                                                         PyIndex(slots, ci), now)]]
                /\ pc' = [pc EXCEPT ![t] = "book_create"]
    /\ UNCHANGED <<now, ticks, started, REDIS, user_token>>
    /\ main2Frame

\* line 256
BookReply(result) == IF result.success THEN BookedOk ELSE BookedFail

\* lines 248-256: yclients.create_record, then the phrase
BookCreate(t, behaviours) ==
    /\ pc[t] = "book_create"
    /\ \E beh \in behaviours :
          LET r == retry_request("create_record", beh, user_token)
              l1 == [Log(loc[t], "create_record") EXCEPT !.last_retry = RetryLog(r)]
          IN  /\ user_token' = r.tok
              /\ IF r.st.status = "raised"
                 THEN /\ loc' = [loc EXCEPT ![t] = Crash(l1, r.st.err)]
                      /\ pc' = [pc EXCEPT ![t] = "idle"]
                 ELSE /\ loc' = [loc EXCEPT ![t] =
                                    [l1 EXCEPT !.reply_text = BookReply(r.st.value)]]
                      /\ pc' = [pc EXCEPT ![t] = "tts"]
    /\ UNCHANGED <<now, ticks, started, REDIS>>
    /\ main2Frame

\* lines 223-224, 261-262: synthesize the reply and answer
Tts(t) ==
    /\ pc[t] = "tts"
    /\ \E failed \in BOOLEAN :
          LET l1 == Log(loc[t], "tts") IN
          loc' = [loc EXCEPT ![t] =
                     IF failed THEN Crash(l1, "ClientError")
                     ELSE [l1 EXCEPT !.resp = Resp("reply", l1.reply_text, "")]]
    /\ pc' = [pc EXCEPT ![t] = "idle"]
    /\ UNCHANGED <<now, ticks, started, REDIS, user_token>>
    /\ main2Frame

(***************************************************************************)
(* The clock                                                               *)
(***************************************************************************)
SESSION_TTL == 300
TickSteps == {SESSION_TTL + 1, SLOT_TTL}

Tick ==
    /\ ticks < MaxTicks
    /\ \E d \in TickSteps : now' = now + d
    /\ ticks' = ticks + 1
    /\ UNCHANGED <<variant, started, SESSIONS, LAST_ACTIVITY, hist, REDIS, user_token,
                   YCLIENTS_SERVICE_IDS, YCLIENTS_STAFF_IDS, pc, loc, rq, fq>>

(***************************************************************************)
(* main.py: FAQ matcher (lines 61-69), after difflib.get_close_matches     *)
(***************************************************************************)
FAQ ==
    <<[question |-> <<"a", "b">>, answer |-> <<"F1">>],
      [question |-> <<"A", "b">>, answer |-> <<"F2">>],
      [question |-> <<"c", "d", "e">>, answer |-> <<"F3">>]>>
PROMPT == <<"PROMPT">>

\* length of the longest common run of a from i and b from j
RECURSIVE CommonLen(_, _, _, _)
CommonLen(a, b, i, j) ==
    IF i > Len(a) \/ j > Len(b) THEN 0
    ELSE IF a[i] # b[j] THEN 0
    ELSE 1 + CommonLen(a, b, i + 1, j + 1)

\* SequenceMatcher.find_longest_match: longest block, then earliest in a,
\* then earliest in b
LongestMatch(a, b) ==
    LET blocks == {<<i, j>> : i \in 1..Len(a), j \in 1..Len(b)}
        size(p) == CommonLen(a, b, p[1], p[2])
        before(p, q) ==
            \/ size(p) > size(q)
            \/ size(p) = size(q) /\ p[1] < q[1]
            \/ size(p) = size(q) /\ p[1] = q[1] /\ p[2] <= q[2]
        best == CHOOSE p \in blocks : \A q \in blocks : before(p, q)
    IN  [i |-> best[1], j |-> best[2], size |-> size(best)]

\* number of matching elements over all matching blocks
RECURSIVE Matches(_, _)
Matches(a, b) ==
    IF a = << >> \/ b = << >> THEN 0
    ELSE LET m == LongestMatch(a, b) IN
         IF m.size = 0 THEN 0
         ELSE m.size
              + Matches(SubSeq(a, 1, m.i - 1), SubSeq(b, 1, m.j - 1))
              + Matches(SubSeq(a, m.i + m.size, Len(a)), SubSeq(b, m.j + m.size, Len(b)))

\* ratio() = 2.0 * M / T as the fraction <<2M, T>>; 1.0 when both are empty
Ratio(a, b) ==
    IF Len(a) + Len(b) = 0 THEN <<1, 1>> ELSE <<2 * Matches(a, b), Len(a) + Len(b)>>
FracLeq(x, y) == x[1] * y[2] <= y[1] * x[2]

\* order of str values, element by element
CharRank(c) ==
    CASE c = " " -> 0 [] c = "A" -> 1 [] c = "B" -> 2 [] c = "C" -> 3
      [] c = "a" -> 11 [] c = "b" -> 12 [] c = "c" -> 13 [] c = "d" -> 14
      [] c = "e" -> 15 [] c = "z" -> 36 [] OTHER -> 99
RECURSIVE StrLeq(_, _)
StrLeq(x, y) ==
    IF x = << >> THEN TRUE
    ELSE IF y = << >> THEN FALSE
    ELSE IF CharRank(Head(x)) # CharRank(Head(y)) THEN CharRank(Head(x)) < CharRank(Head(y))
    ELSE StrLeq(Tail(x), Tail(y))

DefaultCutoff == <<6, 10>>          \* cutoff=0.6

\* get_close_matches(word, possibilities, n=1, cutoff): the possibilities
\* scoring at least cutoff, the largest (score, x) of them
get_close_matches(word, possibilities, cutoff) ==
    LET cand == {k \in 1..Len(possibilities) :
                    FracLeq(cutoff, Ratio(possibilities[k], word))}
        score(k) == Ratio(possibilities[k], word)
        top(k) == \A k2 \in cand :
                     \/ ~FracLeq(score(k), score(k2))
                     \/ (FracLeq(score(k2), score(k))
                         /\ StrLeq(possibilities[k2], possibilities[k]))
    IN  IF cand = {} THEN << >>
        ELSE <<possibilities[CHOOSE k \in cand : top(k)]>>

NoAnswer == <<"<None>">>

\* [q["question"].lower() for q in FAQ]
RECURSIVE Questions(_)
Questions(faq) ==
    IF faq = << >> THEN << >> ELSE <<lower(Head(faq).question)>> \o Questions(Tail(faq))

\* (variant: the answer of the last entry whose question is the match)
FirstAnswer_last(faq, match) ==
    LET hits == {k \in 1..Len(faq) : lower(faq[k].question) = match}
    IN  IF hits = {} THEN NoAnswer
        ELSE faq[CHOOSE k \in hits : \A j \in hits : j <= k].answer

\* lines 66-68: the answer of the first entry whose question is the match
RECURSIVE FirstAnswer(_, _)
FirstAnswer(faq, match) ==
    IF faq = << >> THEN NoAnswer
    ELSE IF lower(Head(faq).question) = match THEN Head(faq).answer
    ELSE FirstAnswer(Tail(faq), match)

find_faq_answer(user_text, cutoff) ==
    LET matches == get_close_matches(lower(user_text), Questions(FAQ), cutoff)
    IN  IF matches = << >> THEN NoAnswer ELSE FirstAnswer(FAQ, matches[1])

(***************************************************************************)
(* main.py: session memory (lines 48-58)                                   *)
(***************************************************************************)
NoTime == -1
CallersA == {GetCaller(p) : p \in Payloads}

update_session(S, L, caller, role, content, t) ==
    [S |-> [S EXCEPT ![caller] = Append(S[caller], [role |-> role, content |-> content])],
     L |-> [L EXCEPT ![caller] = t]]

\* (variant: only the caller's last turn is dropped)
clear_session_last(S, L, caller) ==
    [S |-> [S EXCEPT ![caller] = SubSeq(S[caller], 1, Len(S[caller]) - 1)],
     L |-> [L EXCEPT ![caller] = NoTime]]

\* lines 56-58: pop with a default, so an absent caller is no error
clear_session(S, L, caller) ==
    [S |-> [S EXCEPT ![caller] = << >>], L |-> [L EXCEPT ![caller] = NoTime]]

\* ask_gpt, line 102: the messages sent to the completion call
Messages(S, caller) == <<[role |-> "system", content |-> PROMPT]>> \o S[caller]

(***************************************************************************)
(* main.py: webhook (lines 113-148).  The handler body makes blocking      *)
(* calls only, so it runs from the payload to the response in one step.    *)
(***************************************************************************)
UserTextsA == {<< >>, <<"A", "B">>, <<"z">>}
AnswersA == {<<"ok">>, <<" ", "ok", " ">>}

\* the texts and cutoffs find_faq_answer is looked up with on its own
FaqTexts ==
    {<<"A", "B">>, <<"a", "b">>, <<"c", "d", "e">>, <<"C", "d", "E">>, <<"a", "b", "z">>,
     <<"c", "d">>, <<"a">>, <<"b", "e">>, <<"z">>}
Cutoffs == {<<0, 10>>, <<5, 10>>, DefaultCutoff, <<8, 10>>, <<10, 10>>}

\* find_faq_answer(user_text, cutoff) for each text and cutoff
FaqTable == [u \in UserTextsA \cup FaqTexts, c \in Cutoffs |-> find_faq_answer(u, c)]

\* line 138: find_faq_answer(user_text), with the default cutoff
FaqOf(u) == FaqTable[u, DefaultCutoff]

\* user_text: what the recognizer answered, NoText when it was not asked or
\* did not answer
NoText == <<"<none>">>
Turn(role, content) == [role |-> role, content |-> content]
\* spoken: per caller, the turns of the conversation since the caller's last
\* End event: each heard utterance and each answer found for it (history of
\* the run, not a field of the program)
Spoken(event, caller, turns) ==
    [hist.spoken EXCEPT ![caller] = IF event = "End" THEN << >> ELSE @ \o turns]
Hist(event, caller, user_text, resp, called, messages, gap, turns) ==
    [event |-> event, caller |-> caller, user_text |-> user_text, resp |-> resp,
     called |-> called, messages |-> messages, gap |-> gap,
     spoken |-> Spoken(event, caller, turns)]
NoHist ==
    [event |-> "", caller |-> "", user_text |-> NoText, resp |-> NoResp, called |-> << >>,
     messages |-> << >>, gap |-> NoTime, spoken |-> [c \in CallersA |-> << >>]]

Gap(caller) == IF LAST_ACTIVITY[caller] = NoTime THEN NoTime ELSE now - LAST_ACTIVITY[caller]

mainFrame ==
    /\ started < MaxRequests
    /\ started' = started + 1
    /\ UNCHANGED <<variant, now, ticks, REDIS, user_token,
                   YCLIENTS_SERVICE_IDS, YCLIENTS_STAFF_IDS, pc, loc, rq, fq>>

\* lines 120-122
webhook_End(p) ==
    /\ variant = "main"
    /\ p.event = "End"
    /\ LET c == clear_session(SESSIONS, LAST_ACTIVITY, GetCaller(p)) IN
          /\ SESSIONS' = c.S
          /\ LAST_ACTIVITY' = c.L
    /\ hist' = Hist("End", GetCaller(p), NoText, Resp("cleared", << >>, ""), << >>, << >>,
                    Gap(GetCaller(p)), << >>)
    /\ mainFrame

\* line 148
webhook_Other(p) ==
    /\ variant = "main"
    /\ p.event # "End" /\ ~p.recording_url
    /\ hist' = Hist(p.event, GetCaller(p), NoText, Resp("ok", << >>, ""), << >>, << >>,
                    Gap(GetCaller(p)), << >>)
    /\ UNCHANGED <<SESSIONS, LAST_ACTIVITY>>
    /\ mainFrame

\* lines 124-146 when the download or the recognizer raises, or nothing is heard
webhook_Unheard(p) ==
    /\ variant = "main"
    /\ p.event # "End" /\ p.recording_url
    /\ \E failed \in BOOLEAN, tts_failed \in BOOLEAN :
          hist' = Hist(p.event, GetCaller(p), IF failed THEN NoText ELSE << >>,
                       IF failed \/ tts_failed THEN Resp("error", << >>, "ClientError")
                       ELSE Resp("reply", Clarify, ""),
                       IF failed THEN <<"stt">> ELSE <<"stt", "tts">>,
                       << >>, Gap(GetCaller(p)), << >>)
    /\ UNCHANGED <<SESSIONS, LAST_ACTIVITY>>
    /\ mainFrame

\* lines 138-140, 145-146: answered from the FAQ
webhook_Faq(p, texts) ==
    /\ variant = "main"
    /\ p.event # "End" /\ p.recording_url
    /\ \E user_text \in texts \ {<< >>} :
          LET faq_answer == FaqOf(user_text) IN
          /\ faq_answer # NoAnswer /\ faq_answer # << >>
          /\ \E tts_failed \in BOOLEAN :
                hist' = Hist(p.event, GetCaller(p), user_text,
                             IF tts_failed THEN Resp("error", << >>, "ClientError")
                             ELSE Resp("reply", faq_answer, ""),
                             <<"stt", "tts">>, << >>, Gap(GetCaller(p)),
                             <<Turn("user", user_text), Turn("assistant", faq_answer)>>)
    /\ UNCHANGED <<SESSIONS, LAST_ACTIVITY>>
    /\ mainFrame

\* lines 100-110, 142-146: answered by the language model
webhook_Gpt(p, texts) ==
    /\ variant = "main"
    /\ p.event # "End" /\ p.recording_url
    /\ \E user_text \in {u \in texts \ {<< >>} : FaqOf(u) \in {NoAnswer, << >>}},
          gpt_failed \in BOOLEAN, answer \in AnswersA, tts_failed \in BOOLEAN :
          LET caller == GetCaller(p)
              u1 == update_session(SESSIONS, LAST_ACTIVITY, caller, "user", user_text, now)
              messages == Messages(u1.S, caller)
              u2 == update_session(u1.S, u1.L, caller, "assistant", answer, now)
          IN  /\ IF gpt_failed
                 THEN /\ SESSIONS' = u1.S
                      /\ LAST_ACTIVITY' = u1.L
                      /\ hist' = Hist(p.event, caller, user_text,
                                      Resp("error", << >>, "OpenAIError"),
                                      <<"stt", "llm">>, messages, Gap(caller),
                                      <<Turn("user", user_text)>>)
                 ELSE /\ SESSIONS' = u2.S
                      /\ LAST_ACTIVITY' = u2.L
                      /\ hist' = Hist(p.event, caller, user_text,
                                      IF tts_failed THEN Resp("error", << >>, "ClientError")
                                      ELSE Resp("reply", strip(answer), ""),
                                      <<"stt", "llm", "tts">>, messages, Gap(caller),
                                      <<Turn("user", user_text),
                                        Turn("assistant", strip(answer))>>)
    /\ mainFrame

(***************************************************************************)
(* The two programs.  Spec runs main.py, or part_000 with two concurrent   *)
(* webhook tasks and a few directives; SpecDispatch runs one part_000 task *)
(* over every completion and provider behaviour.                           *)
(***************************************************************************)
\* YCLIENTS_SERVICE_IDS / YCLIENTS_STAFF_IDS as the environment sets them
\* (part_000 lines 26-27); both are empty when the variables are unset
Configs ==
    {[service_ids |-> << >>, staff_ids |-> << >>],
     [service_ids |-> <<"1">>, staff_ids |-> <<"7">>],
     [service_ids |-> <<"1", "2">>, staff_ids |-> <<"7">>]}

RqIdle == [retries |-> 0, delay |-> 0, fn |-> << >>, st |-> NoRetry]
FqIdle == [text |-> << >>, cutoff |-> DefaultCutoff, higher |-> DefaultCutoff,
           done |-> FALSE, low |-> NoAnswer, high |-> NoAnswer]

InitStore ==
    /\ now = 0
    /\ ticks = 0
    /\ started = 0
    /\ SESSIONS = [c \in CallersA |-> << >>]
    /\ LAST_ACTIVITY = [c \in CallersA |-> NoTime]
    /\ hist = NoHist
    /\ REDIS = [k \in RedisKeys |-> NoEntry]
    /\ user_token = NoToken
    /\ pc = [t \in Tasks |-> "idle"]
    /\ loc = [t \in Tasks |-> LocInit]

Init ==
    /\ InitStore
    /\ rq = RqIdle
    /\ fq = FqIdle
    /\ \/ /\ variant = "main"
          /\ YCLIENTS_SERVICE_IDS = << >>
          /\ YCLIENTS_STAFF_IDS = << >>
       \/ /\ variant = "main2"
          /\ YCLIENTS_SERVICE_IDS = <<"1">>
          /\ YCLIENTS_STAFF_IDS = <<"7">>

FewOutputs ==
    {<<"{act:say,text:hi}">>, <<"{act:show_slots,text:hi}">>, <<"{act:book(0),text:hi}">>}
FewSlotBehaviours ==
    {<<a, a, a>> : a \in {NetErr, Ans("tok", "ok", "some", <<Slot(1), Slot(2)>>, FALSE)}}
FewBookBehaviours ==
    {<<a, a, a>> : a \in {NetErr, Ans("tok", "ok", "some", << >>, TRUE)}}

Next ==
    \/ \E p \in Payloads : webhook_End(p)
    \/ \E p \in Payloads : webhook_Other(p)
    \/ \E p \in Payloads : webhook_Unheard(p)
    \/ \E p \in Payloads : webhook_Faq(p, UserTextsA)
    \/ \E p \in Payloads : webhook_Gpt(p, UserTextsA)
    \/ \E t \in Tasks, p \in {q \in Payloads : q.callerid # Missing} : Start(t, p, LineOf(p))
    \/ \E t \in Tasks : EndStage(t)
    \/ \E t \in Tasks : EndIntent(t)
    \/ \E t \in Tasks : EndSlots(t)
    \/ \E t \in Tasks : Stt(t)
    \/ \E t \in Tasks : Gpt(t, FewOutputs)
    \/ \E t \in Tasks : SlotsLoop(t, FewSlotBehaviours)
    \/ \E t \in Tasks : SlotsSet(t)
    \/ \E t \in Tasks : BookGet(t)
    \/ \E t \in Tasks : BookCreate(t, FewBookBehaviours)
    \/ \E t \in Tasks : Tts(t)
    \/ Tick

Spec == Init /\ [][Next]_vars

InitDispatch ==
    /\ InitStore
    /\ rq = RqIdle
    /\ fq = FqIdle
    /\ variant = "main2"
    /\ \E c \in Configs :
          /\ YCLIENTS_SERVICE_IDS = c.service_ids
          /\ YCLIENTS_STAFF_IDS = c.staff_ids

NextDispatch ==
    \/ \E p \in {q \in Payloads : q.callerid # Missing} : Start(1, p, LineOf(p))
    \/ EndStage(1)
    \/ EndIntent(1)
    \/ EndSlots(1)
    \/ Stt(1)
    \/ Gpt(1, ModelOutputs)
    \/ SlotsLoop(1, Behaviours(SlotAnswers))
    \/ SlotsSet(1)
    \/ BookGet(1)
    \/ BookCreate(1, Behaviours(BookAnswers))
    \/ Tts(1)
    \/ Tick

SpecDispatch == InitDispatch /\ [][NextDispatch]_vars

(***************************************************************************)
(* SpecSlots runs one part_000 task whose directive is always show_slots,  *)
(* with one or with two service ids and staff ids configured.              *)
(***************************************************************************)
SlotsConfigs ==
    {[service_ids |-> <<"1">>, staff_ids |-> <<"7">>],
     [service_ids |-> <<"1", "2">>, staff_ids |-> <<"7", "8">>]}
SlotsOutputs == {<<"{act:show_slots,text:hi}">>}
SlotsBehaviours ==
    Behaviours({Ans("tok", "ok", "some", ts, FALSE) : ts \in TimesChoices \ {<< >>}})

InitSlots ==
    /\ InitStore
    /\ rq = RqIdle
    /\ fq = FqIdle
    /\ variant = "main2"
    /\ \E c \in SlotsConfigs :
          /\ YCLIENTS_SERVICE_IDS = c.service_ids
          /\ YCLIENTS_STAFF_IDS = c.staff_ids

NextSlots ==
    \/ \E p \in {q \in Payloads : /\ q.callerid # Missing /\ q.call_id # Missing
                                   /\ q.event = "SpeechCaptured" /\ q.recording_url} :
          Start(1, p, LineOf(p))
    \/ Stt(1)
    \/ Gpt(1, SlotsOutputs)
    \/ SlotsLoop(1, SlotsBehaviours)
    \/ SlotsSet(1)
    \/ Tts(1)
    \/ Tick

SpecSlots == InitSlots /\ [][NextSlots]_vars

(***************************************************************************)
(* SpecCalls runs two part_000 tasks on events that carry no call_id and   *)
(* come from either of two telephone calls.                                *)
(***************************************************************************)
InitCalls ==
    /\ InitStore
    /\ rq = RqIdle
    /\ fq = FqIdle
    /\ variant = "main2"
    /\ YCLIENTS_SERVICE_IDS = <<"1">>
    /\ YCLIENTS_STAFF_IDS = <<"7">>

NextCalls ==
    \/ \E t \in Tasks, p \in {q \in Payloads : q.callerid # Missing /\ q.call_id = Missing} :
          \E line \in LinesOf(p) : Start(t, p, line)
    \/ \E t \in Tasks : EndStage(t)
    \/ \E t \in Tasks : EndIntent(t)
    \/ \E t \in Tasks : EndSlots(t)
    \/ \E t \in Tasks : Stt(t)
    \/ \E t \in Tasks : Gpt(t, FewOutputs)
    \/ \E t \in Tasks : SlotsLoop(t, FewSlotBehaviours)
    \/ \E t \in Tasks : SlotsSet(t)
    \/ \E t \in Tasks : BookGet(t)
    \/ \E t \in Tasks : BookCreate(t, FewBookBehaviours)
    \/ \E t \in Tasks : Tts(t)

SpecCalls == InitCalls /\ [][NextCalls]_vars

(***************************************************************************)
(* find_faq_answer on its own (SpecFaq): a text and two cutoffs are        *)
(* looked up, and main.py's webhook hears that text.                       *)
(***************************************************************************)
InitFaq ==
    /\ InitStore
    /\ rq = RqIdle
    /\ variant = "main"
    /\ YCLIENTS_SERVICE_IDS = << >>
    /\ YCLIENTS_STAFF_IDS = << >>
    /\ \E u \in FaqTexts, c1 \in Cutoffs, c2 \in Cutoffs :
          /\ FracLeq(c1, c2)
          /\ fq = [FqIdle EXCEPT !.text = u, !.cutoff = c1, !.higher = c2]

\* find_faq_answer(text, cutoff) at both cutoffs
FaqLookup ==
    /\ ~fq.done
    /\ fq' = [fq EXCEPT !.done = TRUE,
                        !.low = FaqTable[fq.text, fq.cutoff],
                        !.high = FaqTable[fq.text, fq.higher]]
    /\ UNCHANGED <<variant, now, ticks, started, SESSIONS, LAST_ACTIVITY, hist, REDIS,
                   user_token, YCLIENTS_SERVICE_IDS, YCLIENTS_STAFF_IDS, pc, loc, rq>>

FaqPayload ==
    [event |-> "SpeechCaptured", callerid |-> "79991234567", call_id |-> "c1",
     recording_url |-> TRUE]

NextFaq ==
    \/ FaqLookup
    \/ webhook_Faq(FaqPayload, {fq.text})
    \/ webhook_Gpt(FaqPayload, {fq.text})

SpecFaq == InitFaq /\ [][NextFaq]_vars

(***************************************************************************)
(* retry_request on its own: an operation whose attempt k succeeds iff     *)
(* fn[k], wrapped with every retries and delay within the bounds           *)
(***************************************************************************)
InitRetry ==
    /\ InitStore
    /\ fq = FqIdle
    /\ variant = "retry"
    /\ YCLIENTS_SERVICE_IDS = << >>
    /\ YCLIENTS_STAFF_IDS = << >>
    /\ \E n \in 0..MaxRetries, d \in 1..MaxDelay :
          \E f \in [1..n -> BOOLEAN] :
             rq = [retries |-> n, delay |-> d, fn |-> f, st |-> RetryStart]

\* one iteration of `for i in range(retries)`
RetryLoop ==
    /\ variant = "retry"
    /\ rq.st.status = "running"
    /\ rq' = [rq EXCEPT !.st = RetryIter(rq.st, FnOutcome(rq.fn[rq.st.calls + 1],
                                                           rq.st.calls + 1),
                                         rq.retries, rq.delay)]
    /\ UNCHANGED <<variant, now, ticks, started, SESSIONS, LAST_ACTIVITY, hist, REDIS,
                   user_token, YCLIENTS_SERVICE_IDS, YCLIENTS_STAFF_IDS, pc, loc, fq>>

NextRetry == RetryLoop

SpecRetry == InitRetry /\ [][NextRetry]_vars

(***************************************************************************)
(* Properties                                                              *)
(***************************************************************************)
Range(f) == {f[k] : k \in DOMAIN f}
SlotsCached(call_id) == Live(REDIS, Key(call_id, "slots"), now)
Cleared == Resp("cleared", << >>, "")

\* C1: handling an End event answers exactly {status: "cleared"}, makes no
\* speech-to-text, language-model, scheduling or text-to-speech call, and
\* when it returns the store holds no turn history (main.py) and no cached
\* slots (part_000) for that caller / call id.
C1_EndClears ==
    [][/\ (variant = "main" /\ started' # started /\ hist'.event = "End")
             => /\ hist'.resp = Cleared
                /\ hist'.called = << >>
                /\ SESSIONS'[hist'.caller] = << >>
                /\ LAST_ACTIVITY'[hist'.caller] = NoTime
       /\ \A t \in Tasks :
             (pc[t] = "end_slots" /\ pc'[t] = "idle")
             => /\ loc'[t].resp = Cleared
                /\ loc'[t].called = << >>
                /\ ~Live(REDIS', Key(loc'[t].call_id, "slots"), now')
      ]_vars

\* an End that found cached slots for its call has returned
C1_Witness ==
    \E t \in Tasks :
       /\ pc[t] = "idle" /\ loc[t].event = "End" /\ loc[t].resp = Cleared
       /\ loc[t].had_slots /\ ~SlotsCached(loc[t].call_id)

\* C2: when an End of a call ran while a SpeechCaptured task of the same
\* call was suspended at an await, then once both tasks have finished the
\* store holds no cached slots (and no turn history) for that call.
C2_EndPriority ==
    \A t \in Tasks :
       (AllIdle /\ loc[t].interrupted) => ~SlotsCached(loc[t].call_id)

\* C3: when more than SESSION_TTL seconds passed since the caller's last
\* recorded turn, the messages sent to the language model for the caller's
\* next utterance are the system prompt and that utterance only.
C3_SessionExpires ==
    (variant = "main" /\ hist.gap > SESSION_TTL /\ hist.messages # << >>)
    => Len(hist.messages) = 2

\* C4: an operation failing on every one of the N attempts is invoked
\* exactly N times and the exception of attempt N is raised; an operation
\* that first succeeds on attempt k <= N is invoked exactly k times and the
\* result of attempt k is returned.
C4_RetryCounts ==
    LET st == rq.st
        n == rq.retries
        allFail == \A k \in 1..n : ~rq.fn[k]
        firstOk == {k \in 1..n : rq.fn[k] /\ \A j \in 1..(k - 1) : ~rq.fn[j]}
    IN  (variant = "retry" /\ st.status # "running")
        => /\ allFail => st.calls = n
           /\ (allFail /\ n >= 1) => (st.status = "raised" /\ st.err = n)
           /\ \A k \in firstOk :
                 st.status = "returned" /\ st.calls = k /\ st.value = k

\* three attempts, all failed: three calls, the third exception raised
C4_Witness ==
    /\ variant = "retry" /\ rq.retries = 3 /\ rq.fn = <<FALSE, FALSE, FALSE>>
    /\ rq.st.status = "raised" /\ rq.st.calls = 3

\* C5: the j-th sleep happens after exactly j failed attempts, i.e. before
\* attempt i = j + 1, and lasts baseDelay * 2^(i-2); nothing is slept before
\* attempt 1 nor after the last attempt.
C5_Backoff ==
    LET st == rq.st IN
    variant = "retry"
    => /\ \A j \in 1..Len(st.sleeps) :
             /\ st.sleeps[j].after = j
             /\ st.sleeps[j].after < rq.retries
             /\ st.sleeps[j].d = rq.delay * 2 ^ ((j + 1) - 2)
       /\ st.status # "running"
             => Len(st.sleeps) = (IF st.calls = 0 THEN 0 ELSE st.calls - 1)

\* attempts 1 and 2 failed, attempt 3 succeeded: slept delay, then 2*delay
C5_Witness ==
    /\ variant = "retry" /\ rq.delay = 2 /\ rq.st.status = "returned"
    /\ rq.st.calls = 3
    /\ rq.st.sleeps = <<[d |-> 2, after |-> 1], [d |-> 4, after |-> 2]>>

IsBook(l) == l.act.k = "str" /\ StartsWithBook(l.act.s)

\* C6: show_slots when the scheduling client raises after its retries: the
\* handler still answers with a spoken reply instead of ending in the
\* exception.
C6_SlotsDegrade ==
    \A t \in Tasks :
       (/\ pc[t] = "idle"
        /\ loc[t].act = Str(<<"show_slots">>)
        /\ loc[t].last_retry.status = "raised")
       => loc[t].resp.kind = "reply"

\* C7: book:<index> with a slot cache entry for the call id: whatever the
\* index and the length of the cached list, no exception is raised while the
\* slot is resolved, the slot at the index is chosen when the index is in
\* bounds and slot 0 otherwise, and the booking request is made.
C7_BookResolves ==
    \A t \in Tasks :
       (/\ pc[t] \in {"idle", "book_create", "tts"}
        /\ IsBook(loc[t])
        /\ loc[t].hit
        /\ BookIndex(loc[t].act.s).ok)
       => /\ loc[t].resp.exc # "IndexError"
          /\ loc[t].request.sent
          /\ loc[t].choice =
                (IF loc[t].idx \in 0..(Len(loc[t].cached) - 1)
                 THEN loc[t].cached[loc[t].idx + 1] ELSE loc[t].cached[1])

\* C8: book(i) against a cached list of more than i slots: the booking
\* request carries the schedulable timestamp of the cached slot at index i;
\* the reply is the success phrase when the provider's success flag is true
\* and the failure phrase when it is false.
C8_BookUsesSlot ==
    \A t \in Tasks :
       (/\ loc[t].request.sent
        /\ loc[t].idx \in 0..(Len(loc[t].cached) - 1))
       => /\ loc[t].request.datetime = strftime(loc[t].cached[loc[t].idx + 1].datetime)
          /\ loc[t].resp.kind = "reply" => loc[t].resp.text \in {BookedOk, BookedFail}

NotJson(raw) == ~json_loads(raw).ok

WellFormed(v) ==
    /\ v.type = "object"
    /\ v.act.k = "str"
    /\ v.text.k = "str"
    /\ \/ v.act.s \in {<<"say">>, <<"show_slots">>, <<"goodbye">>}
       \/ StartsWithBook(v.act.s) /\ BookIndex(v.act.s).ok

\* C10: for a completion that is JSON but no well-formed directive, the
\* handler degrades to say with the raw completion as reply text and
\* answers with a reply instead of raising.
C10_MalformedDegrades ==
    \A t \in Tasks :
       (/\ loc[t].answered
        /\ json_loads(loc[t].raw).ok
        /\ ~WellFormed(json_loads(loc[t].raw).v)
        /\ pc[t] = "idle"
        /\ loc[t].resp.exc # "ClientError")
       => /\ loc[t].resp.kind = "reply"
          /\ loc[t].resp.text \in {loc[t].raw, strip(loc[t].raw)}

\* C11: a recording in which nothing is recognized is answered with the
\* fixed clarification phrase after one synthesis call; the handler makes no
\* language-model, slot-lookup or booking call and changes neither the turn
\* history nor the slot cache.
C11_EmptyText ==
    [][/\ (variant = "main" /\ started' # started /\ hist'.user_text = << >>)
             => /\ hist'.called = <<"stt", "tts">>
                /\ hist'.resp.kind \in {"reply", "error"}
                /\ hist'.resp.kind = "reply" => hist'.resp.text = Clarify
                /\ hist'.resp.kind = "error" => hist'.resp.exc = "ClientError"
                /\ SESSIONS' = SESSIONS
                /\ LAST_ACTIVITY' = LAST_ACTIVITY
       /\ \A t \in Tasks :
             (/\ pc[t] \in {"stt", "tts"} /\ pc'[t] # pc[t]
              /\ loc'[t].recognized /\ loc'[t].user_text = << >>)
             => /\ REDIS' = REDIS
                /\ user_token' = user_token
                /\ loc'[t].called = (IF pc[t] = "stt" THEN <<"stt">> ELSE <<"stt", "tts">>)
                /\ pc'[t] = (IF pc[t] = "stt" THEN "tts" ELSE "idle")
                /\ loc'[t].resp.kind = "reply" => loc'[t].resp.text = Clarify
                /\ loc'[t].resp.kind = "error" => loc'[t].resp.exc = "ClientError"
      ]_vars

\* nothing was recognized and the clarification phrase was answered
C11_Witness ==
    \E t \in Tasks :
       /\ pc[t] = "idle" /\ loc[t].recognized /\ loc[t].user_text = << >>
       /\ loc[t].called = <<"stt", "tts">>
       /\ loc[t].resp = Resp("reply", Clarify, "")

IndexOf(seq, x) == CHOOSE k \in 1..Len(seq) : seq[k] = x

RECURSIVE Flatten(_)
Flatten(results) ==
    IF results = << >> THEN << >> ELSE Head(results).slots \o Flatten(Tail(results))

\* the time labels of the first min(3, length) slots, separated by ", "
Labels(slots) ==
    LET n == IF Len(slots) < 3 THEN Len(slots) ELSE 3 IN
    CASE n = 0 -> << >>
      [] n = 1 -> <<slots[1].time>>
      [] n = 2 -> <<slots[1].time, ", ", slots[2].time>>
      [] n = 3 -> <<slots[1].time, ", ", slots[2].time, ", ", slots[3].time>>

\* C12: when show_slots stores its list, get_slots was called once per
\* (service id, staff id) pair, service ids outermost, each result holding at
\* most 3 slots; the list cached for the call id is the concatenation of
\* the results in call order, whatever was cached before; the reply lists
\* the labels of the first min(3, length) cached slots in order; with one
\* pair returning 3 slots the reply lists those 3 labels and the cached
\* list is that list.
C12_ShowSlots ==
    [][\A t \in Tasks :
          (pc[t] = "slots_set" /\ pc'[t] = "tts")
          => LET l == loc'[t]
                 key == Key(l.call_id, "slots")
                 S == YCLIENTS_SERVICE_IDS
                 F == YCLIENTS_STAFF_IDS
             IN  /\ Len(l.fetched) = Len(S) * Len(F)
                 /\ \A i, j \in 1..Len(l.fetched) :
                       i < j =>
                         \/ IndexOf(S, l.fetched[i].sid) < IndexOf(S, l.fetched[j].sid)
                         \/ /\ l.fetched[i].sid = l.fetched[j].sid
                            /\ IndexOf(F, l.fetched[i].stf) < IndexOf(F, l.fetched[j].stf)
                 /\ \A i \in 1..Len(l.fetched) : Len(l.fetched[i].slots) <= 3
                 /\ Live(REDIS', key, now')
                 /\ REDIS'[key].val = json_dumps(Flatten(l.fetched))
                 /\ REDIS'[key].exp = now' + 3600
                 /\ l.reply_text = <<SlotsPrefix>> \o Labels(Flatten(l.fetched))
                 /\ (Len(l.fetched) = 1 /\ Len(l.fetched[1].slots) = 3)
                       => /\ l.reply_text =
                                <<SlotsPrefix, l.fetched[1].slots[1].time, ", ",
                                  l.fetched[1].slots[2].time, ", ",
                                  l.fetched[1].slots[3].time>>
                          /\ json_loads_slots(redis_get(REDIS', key, now'))
                                = l.fetched[1].slots
      ]_vars

\* show_slots fetched two results of more than 3 slots together and cached
\* them over a different list offered earlier in the call
C12_Witness ==
    \E t \in Tasks :
       /\ pc[t] = "tts" /\ loc[t].act = Str(<<"show_slots">>)
       /\ Len(loc[t].fetched) >= 2 /\ Len(Flatten(loc[t].fetched)) > 3
       /\ Truthy(loc[t].prev)
       /\ loc[t].prev # json_dumps(Flatten(loc[t].fetched))
       /\ redis_get(REDIS, Key(loc[t].call_id, "slots"), now)
             = json_dumps(Flatten(loc[t].fetched))

\* the three deletes of one End (part_000 lines 205-207)
EndAll(store, call_id) ==
    EndDeleteSlots(redis_delete(redis_delete(store, Key(call_id, "stage")),
                                Key(call_id, "intent")),
                   call_id)

\* C13: from every reachable store, clearing a caller / call twice gives
\* the store that clearing once gives; an End for a caller without a session
\* (never had one, or already cleared) answers "cleared" without an error and
\* leaves the store as it is.
C13_ClearIdempotent ==
    /\ [](/\ \A c \in CallersA :
               LET once == clear_session(SESSIONS, LAST_ACTIVITY, c)
               IN  clear_session(once.S, once.L, c) = once
          /\ \A c \in CallKeys : EndAll(EndAll(REDIS, c), c) = EndAll(REDIS, c))
    /\ [][/\ (/\ variant = "main" /\ started' # started /\ hist'.event = "End"
              /\ SESSIONS[hist'.caller] = << >>
              /\ LAST_ACTIVITY[hist'.caller] = NoTime)
             => /\ hist'.resp = Cleared
                /\ SESSIONS' = SESSIONS
                /\ LAST_ACTIVITY' = LAST_ACTIVITY
          /\ \A t \in Tasks :
                (/\ pc[t] \in {"end_stage", "end_intent", "end_slots"}
                 /\ pc'[t] # pc[t]
                 /\ \A f \in {"stage", "intent", "slots"} :
                       REDIS[Key(loc[t].call_id, f)] = NoEntry)
                => /\ REDIS' = REDIS
                   /\ loc'[t].resp.kind # "error"
                   /\ pc'[t] = "idle" => loc'[t].resp = Cleared
         ]_vars

\* two End events of the same call have both been answered
C13_Witness ==
    /\ variant = "main2" /\ started = 2 /\ AllIdle
    /\ \A t \in Tasks : loc[t].event = "End" /\ loc[t].resp = Cleared
    /\ loc[1].call_id = loc[2].call_id
    /\ ~SlotsCached(loc[1].call_id)

\* the last outbound call a task made
LastCall(l) == IF l.called = << >> THEN "" ELSE l.called[Len(l.called)]

\* C14: a handler that ends in the error of a recognizer, synthesizer,
\* language-model or scheduling call has made 3 attempts of that call
\* through retry_request, the third of which raised.
C14_AllRetried ==
    \A t \in Tasks :
       (/\ pc[t] = "idle"
        /\ loc[t].resp.kind = "error"
        /\ loc[t].resp.exc \in {"ClientError", "OpenAIError"})
       => /\ LastCall(loc[t]) \in {"stt", "llm", "tts", "get_slots", "create_record"}
          /\ loc[t].last_retry.status = "raised"
          /\ loc[t].last_retry.calls = DefaultRetries

\* the entries whose question is the text after lower-casing both
Same(text) == {k \in 1..Len(FAQ) : lower(FAQ[k].question) = lower(text)}
\* the entries whose question scores at least the cutoff against the text
Close(text, cutoff) ==
    {k \in 1..Len(FAQ) : FracLeq(cutoff, Ratio(lower(FAQ[k].question), lower(text)))}
First(K) == CHOOSE k \in K : \A j \in K : k <= j

C16_AuthRefresh ==
    /\ started = 0 => user_token = NoToken
    /\ \A t \in Tasks :
          LET a == loc[t].last_retry.auths IN
          \A k \in 1..Len(a) :
             /\ (a[k].held /\ (k = 1 \/ ~a[k - 1].denied)) => a[k].auth = 0
             /\ (a[k].denied /\ k < DefaultRetries)
                   => Len(a) > k /\ a[k + 1].auth = 1

\* the turns with the surrounding whitespace of each content removed
Stripped(turns) == [k \in 1..Len(turns) |-> Turn(turns[k].role, strip(turns[k].content))]

\* C17: the messages sent to the language model are the system instruction,
\* every earlier turn of the caller's session in order (turns answered from
\* the FAQ included) and the new utterance, and every turn of the
\* conversation is recorded in the session.
C17_HistoryUsed ==
    /\ [](variant = "main"
            => \A c \in CallersA : Stripped(SESSIONS[c]) = hist.spoken[c])
    /\ [][(variant = "main" /\ "llm" \in Range(hist'.called))
            => Stripped(hist'.messages)
                  = <<Turn("system", PROMPT)>> \o hist.spoken[hist'.caller]
                       \o <<Turn("user", hist'.user_text)>>]_vars

\* how many times the outbound call was made
Count(called, what) == Cardinality({k \in 1..Len(called) : called[k] = what})

\* C18: a book directive that finds no slots cached for the call id still
\* posts one booking for the first configured service id and staff id, and
\* the reply is the success or the failure phrase.
C18_BookNoCache ==
    \A t \in Tasks :
       LET l == loc[t] IN
       (/\ l.act.k = "str" /\ StartsWithBook(l.act.s)
        /\ "redis_get" \in Range(l.called) /\ ~l.hit
        /\ YCLIENTS_SERVICE_IDS # << >> /\ YCLIENTS_STAFF_IDS # << >>)
          => /\ l.request.sent
             /\ l.request.service_id = YCLIENTS_SERVICE_IDS[1]
             /\ l.request.staff_id = YCLIENTS_STAFF_IDS[1]
             /\ l.resp.kind = "reply"
                   => /\ Count(l.called, "create_record") = 1
                      /\ l.resp.text \in {BookedOk, BookedFail}

\* the slot cache entry of task u's call is the one u's show_slots wrote
Owns(u) ==
    /\ "redis_set" \in Range(loc[u].called)
    /\ REDIS[Key(loc[u].call_id, "slots")].present
    /\ REDIS[Key(loc[u].call_id, "slots")].val = json_dumps(loc[u].slots_all)
\* task t takes this step
Acts(t) == pc[t] # "idle" /\ (pc'[t] # pc[t] \/ loc'[t] # loc[t])

\* C19: a step that handles an event of one telephone call neither reads,
\* changes nor deletes the slots cached for a different call, also when the
\* events carry no call_id.
C19_Isolation ==
    [][\A t \in Tasks, u \in Tasks :
          (/\ t # u /\ Acts(t) /\ loc[t].line # loc[u].line /\ Owns(u))
             => /\ REDIS'[Key(loc[u].call_id, "slots")] = REDIS[Key(loc[u].call_id, "slots")]
                /\ pc[t] = "book_get" => loc[t].call_id # loc[u].call_id]_vars

\* C20: each caller's stored turns alternate user, assistant, user, ...,
\* starting with a user turn, also after a turn whose language-model call
\* raised.
C20_Alternates ==
    variant = "main"
       => \A c \in CallersA :
             \A k \in 1..Len(SESSIONS[c]) :
                SESSIONS[c][k].role = IF k % 2 = 1 THEN "user" ELSE "assistant"

====
